---- MODULE Spec2Model ----
(***************************************************************************)
(* Daily Focus Timer (src/unnamed/part_000) and Study Planner              *)
(* (src/study-planner/script.js).  One browser tab shows one of the two    *)
(* pages; localStorage and the wall clock are shared.                      *)
(*                                                                         *)
(* JavaScript values are tagged pairs <<tag, payload>>; text is a sequence *)
(* of one-character strings, so that parseInt, trim and the MM:SS          *)
(* formatting are computed, not assumed.                                   *)
(***************************************************************************)
EXTENDS Integers, Sequences, FiniteSets, TLC

VARIABLES
    page,                 \* which script the tab runs: "timer" or "planner"
    today,                \* new Date().toDateString(), as a day index
    \* ---- focus timer: script state
    countdown,            \* part_000:16  interval handle, 0 = undefined
    timeLeft,             \* part_000:17
    isRunning,            \* part_000:18
    intervals,            \* host: handles of the active setInterval timers
    \* ---- focus timer: DOM
    timerDisplay,         \* #timer-display textContent
    statusMessage,        \* #status-message textContent
    minutesInput,         \* #minutes-input value
    sessionCountDisplay,  \* #session-count textContent
    startBtnShown,        \* #start-btn style.display # 'none'
    docTitle,             \* document.title
    alertMsg,             \* the alert() raised by the last handler, <<>> if none
    \* ---- focus timer: localStorage[SESSION_KEY]
    sessionStore,         \* <<>> when absent, else <<[date, count]>>
    \* ---- study planner: script state, DOM and localStorage
    now,                  \* Date.now(), in milliseconds since the tab was opened
    tasks,                \* script.js:11
    rendered,             \* the .task-checkbox elements of #task-list, in order
    listenersOn,          \* the rendered checkboxes have their change listener
    statsTotal,           \* the total that #stats-total shows
    statsCompleted,       \* the completed minutes that #stats-completed shows
    percent,              \* the percentage last given to the progress bar
    importError,          \* #import-error textContent
    taskStore,            \* localStorage[STORAGE_KEY]: <<>> or <<the stored array>>
    dateStore,            \* localStorage[DATE_KEY]: <<>> or <<the stored day>>
    \* ---- history (not program state)
    doneToday,            \* completeSession calls since the last calendar-day change
    runCompletions,       \* completeSession calls since the last startTimer
    runSeconds,           \* the argument of the last startTimer call, 0 if none
    ticks,                \* interval callbacks run since the last startTimer
    savedOn,              \* <<day of the last saveTasks call>>, <<>> if none
    lastOp                \* the timer handler that ran last

timerVars == <<countdown, timeLeft, isRunning, intervals, timerDisplay,
               statusMessage, minutesInput, sessionCountDisplay, startBtnShown,
               docTitle, alertMsg, sessionStore, doneToday, runCompletions,
               runSeconds, ticks, lastOp>>

plannerVars == <<now, tasks, rendered, listenersOn, statsTotal, statsCompleted,
                 percent, importError, taskStore, dateStore, savedOn>>

vars == <<page, today, timerVars, plannerVars>>

\* ------------------------------------------------------------------ bounds
MaxDay == 1
MaxSessions == 2
MaxNow == 1
MaxTasks == 2

\* ------------------------------------------------------- JavaScript values
NaN == <<"nan", 0>>
JsUndefined == <<"undefined", 0>>
JsNull == <<"null", 0>>
Num(n) == <<"num", n>>
Str(text) == <<"str", text>>
IsNum(x) == x[1] = "num"
IsStr(x) == x[1] = "str"
\* an exact quotient n / d with d > 0
Ratio(n, d) == <<"ratio", n, d>>

\* !x is false
Truthy(x) ==
    \/ IsStr(x) /\ x[2] # <<>>
    \/ IsNum(x) /\ x[2] # 0

DigitChars == <<"0", "1", "2", "3", "4", "5", "6", "7", "8", "9">>
IsDigit(c) == \E i \in 1..10 : DigitChars[i] = c
DigitValue(c) == (CHOOSE i \in 1..10 : DigitChars[i] = c) - 1
IsSpace(c) == c = " "

\* String(n) for an integer n
RECURSIVE Digits(_)
Digits(n) == IF n < 10 THEN <<DigitChars[n + 1]>>
             ELSE Digits(n \div 10) \o <<DigitChars[(n % 10) + 1]>>
NumToString(n) == IF n < 0 THEN <<"-">> \o Digits(-n) ELSE Digits(n)

RECURSIVE SkipSpaces(_)
SkipSpaces(s) == IF s # <<>> /\ IsSpace(Head(s)) THEN SkipSpaces(Tail(s)) ELSE s

RECURSIVE DigitPrefix(_, _)
DigitPrefix(s, acc) ==
    IF s # <<>> /\ IsDigit(Head(s))
    THEN DigitPrefix(Tail(s), acc * 10 + DigitValue(Head(s)))
    ELSE acc

\* parseInt(text): leading white space, an optional sign, then the longest
\* run of decimal digits; NaN when there is no digit there.
ParseInt(text) ==
    LET s == SkipSpaces(text)
        neg == s # <<>> /\ Head(s) = "-"
        body == IF s # <<>> /\ (Head(s) = "-" \/ Head(s) = "+") THEN Tail(s) ELSE s
    IN IF body = <<>> \/ ~IsDigit(Head(body)) THEN NaN
       ELSE Num(IF neg THEN -DigitPrefix(body, 0) ELSE DigitPrefix(body, 0))

\* a % b of JavaScript for b > 0 (the sign follows the dividend)
JsRem(a, b) == IF a >= 0 THEN a % b ELSE -((-a) % b)

\* the planner's variables in a tab that shows the timer: the script has not
\* run and nothing is stored under its keys
PlannerNotOpened ==
    /\ now = 0
    /\ tasks = <<>>
    /\ rendered = <<>>
    /\ listenersOn = FALSE
    /\ statsTotal = Num(0)
    /\ statsCompleted = Num(0)
    /\ percent = Ratio(0, 1)
    /\ importError = <<>>
    /\ taskStore = <<>>
    /\ dateStore = <<>>
    /\ savedOn = <<>>

\* ------------------------------------------------------------ focus timer
SecondsPerMinute == 60
MinMinutes == 1
MaxMinutes == 180
DefaultMinutes == 25

\* index.html is not part of the sources: the text the page's elements hold
\* before any script has run.
HtmlSessionCount == <<"0">>
HtmlTimerDisplay == <<"2", "5", ":", "0", "0">>
HtmlStatusMessage == "Ready to Focus?"
HtmlMinutesInput == <<"2", "5">>
HtmlTitle == <<"Daily Focus Timer">>

\* what the user can have typed into #minutes-input before clicking Start
MinuteTexts == { <<>>, <<"a">>, <<"0">>, <<"1">>, <<"2">>, <<"2", "x">>,
                 <<"1", "8", "1">>, <<"-", "1">> }

\* updateDisplay: the MM:SS text, each part padded to two digits
PadTwo(n) == IF n < 10 THEN <<"0">> \o NumToString(n) ELSE NumToString(n)
DisplayString(seconds) ==
    PadTwo(seconds \div SecondsPerMinute) \o <<":">>
        \o PadTwo(JsRem(seconds, SecondsPerMinute))
TitleFor(seconds) == <<"(">> \o DisplayString(seconds) \o <<") Focus Timer">>

\* saveStats
SaveStats(date, count) == <<[date |-> date, count |-> count]>>

\* variant: every load starts the count again
LoadDailyStatsAlwaysResets(day, store, shown) == <<SaveStats(day, 0), shown>>

\* loadDailyStats: <<store, session-count text>> after the call
LoadDailyStats(day, store, shown) ==
    IF store # <<>>
    THEN IF store[1].date = day
         THEN <<store, NumToString(store[1].count)>>
         ELSE <<SaveStats(day, 0), shown>>
    ELSE <<SaveStats(day, 0), shown>>

\* incrementDailyCount: parseInt(textContent) || 0, plus one
NextCount(shown) ==
    LET parsed == ParseInt(shown)
    IN (IF IsNum(parsed) THEN parsed[2] ELSE 0) + 1

\* variant: the lower limit is not tested
RejectsMinutesNoLowerLimit(minutes) ==
    \/ ~IsNum(minutes)
    \/ minutes[2] > MaxMinutes

\* the start handler's validation: TRUE when the parsed minutes are refused
RejectsMinutes(minutes) ==
    \/ ~IsNum(minutes)
    \/ minutes[2] < MinMinutes
    \/ minutes[2] > MaxMinutes

\* setInterval returns a handle no active timer has.  Handles are opaque and
\* the only copy the script keeps is `countdown`, overwritten by the same
\* call, so the least unused handle stands for the host's fresh one.
FreshHandle == CHOOSE h \in 1..(Cardinality(intervals) + 1) : h \notin intervals

\* variant: the interval is never cancelled
ClearIntervalForgotten(handle, active) == active

\* clearInterval(handle)
ClearInterval(handle, active) == active \ {handle}

SessionCount == LET parsed == ParseInt(sessionCountDisplay)
                IN IF IsNum(parsed) THEN parsed[2] ELSE 0

\* the page as the browser builds it, then the DOMContentLoaded handler
TimerPageLoad(day, store) ==
    LET loaded == LoadDailyStats(day, store, HtmlSessionCount)
    IN /\ countdown' = 0
       /\ timeLeft' = JsUndefined
       /\ isRunning' = FALSE
       /\ intervals' = {}
       /\ timerDisplay' = HtmlTimerDisplay
       /\ statusMessage' = HtmlStatusMessage
       /\ minutesInput' = HtmlMinutesInput
       /\ startBtnShown' = TRUE
       /\ docTitle' = HtmlTitle
       /\ alertMsg' = <<>>
       /\ sessionStore' = loaded[1]
       /\ sessionCountDisplay' = loaded[2]

TimerInit ==
    LET loaded == LoadDailyStats(0, <<>>, HtmlSessionCount)
    IN /\ page = "timer"
       /\ today = 0
       /\ countdown = 0
       /\ timeLeft = JsUndefined
       /\ isRunning = FALSE
       /\ intervals = {}
       /\ timerDisplay = HtmlTimerDisplay
       /\ statusMessage = HtmlStatusMessage
       /\ minutesInput = HtmlMinutesInput
       /\ startBtnShown = TRUE
       /\ docTitle = HtmlTitle
       /\ alertMsg = <<>>
       /\ sessionStore = loaded[1]
       /\ sessionCountDisplay = loaded[2]
       /\ doneToday = 0
       /\ runCompletions = 0
       /\ runSeconds = 0
       /\ ticks = 0
       /\ lastOp = "load"
       /\ PlannerNotOpened

\* variant: startTimer registers no interval
StartTimerWithoutInterval(durationSeconds) ==
    /\ isRunning' = TRUE
    /\ timeLeft' = Num(durationSeconds)
    /\ startBtnShown' = FALSE
    /\ statusMessage' = "Stay Focused..."
    /\ timerDisplay' = DisplayString(durationSeconds)
    /\ docTitle' = TitleFor(durationSeconds)
    /\ runCompletions' = 0
    /\ runSeconds' = durationSeconds
    /\ ticks' = 0
    /\ UNCHANGED <<countdown, intervals>>

\* startTimer(durationSeconds)
StartTimer(durationSeconds) ==
    /\ isRunning' = TRUE
    /\ timeLeft' = Num(durationSeconds)
    /\ startBtnShown' = FALSE
    /\ statusMessage' = "Stay Focused..."
    /\ timerDisplay' = DisplayString(durationSeconds)
    /\ docTitle' = TitleFor(durationSeconds)
    /\ countdown' = FreshHandle
    /\ intervals' = intervals \cup {FreshHandle}
    /\ runCompletions' = 0
    /\ runSeconds' = durationSeconds
    /\ ticks' = 0

\* variant: the handler without its isRunning guard
StartClickUnguarded(text) ==
    /\ page = "timer"
    /\ SessionCount < MaxSessions
    /\ lastOp' = "start"
    /\ minutesInput' = text
    /\ IF RejectsMinutes(ParseInt(text))
       THEN /\ alertMsg' = <<"Please enter a valid time between 1 and 180 minutes.">>
            /\ UNCHANGED <<countdown, timeLeft, isRunning, intervals, timerDisplay,
                           statusMessage, startBtnShown, docTitle, runCompletions,
                   runSeconds, ticks>>
       ELSE /\ alertMsg' = <<>>
            /\ StartTimer(ParseInt(text)[2] * SecondsPerMinute)
    /\ UNCHANGED <<page, today, sessionCountDisplay, sessionStore, doneToday>>
    /\ UNCHANGED plannerVars

\* the click handler of #start-btn, with `text` in the minutes field.  The
\* handler does not look at the button's visibility; its only guard is
\* isRunning.
StartClick(text) ==
    /\ page = "timer"
    /\ SessionCount < MaxSessions
    /\ lastOp' = "start"
    /\ minutesInput' = text
    /\ IF isRunning
       THEN /\ alertMsg' = <<>>
            /\ UNCHANGED <<countdown, timeLeft, isRunning, intervals, timerDisplay,
                           statusMessage, startBtnShown, docTitle, runCompletions,
                   runSeconds, ticks>>
       ELSE IF RejectsMinutes(ParseInt(text))
       THEN /\ alertMsg' = <<"Please enter a valid time between 1 and 180 minutes.">>
            /\ UNCHANGED <<countdown, timeLeft, isRunning, intervals, timerDisplay,
                           statusMessage, startBtnShown, docTitle, runCompletions,
                   runSeconds, ticks>>
       ELSE /\ alertMsg' = <<>>
            /\ StartTimer(ParseInt(text)[2] * SecondsPerMinute)
    /\ UNCHANGED <<page, today, sessionCountDisplay, sessionStore, doneToday>>
    /\ UNCHANGED plannerVars

\* completeSession, with incrementDailyCount and saveStats
CompleteSession ==
    /\ intervals' = ClearInterval(countdown, intervals)
    /\ isRunning' = FALSE
    /\ timerDisplay' = <<"0", "0", ":", "0", "0">>
    /\ statusMessage' = "Session Complete!"
    /\ docTitle' = <<"Session Complete!">>
    /\ sessionCountDisplay' = NumToString(NextCount(sessionCountDisplay))
    /\ sessionStore' = SaveStats(today, NextCount(sessionCountDisplay))
    /\ doneToday' = doneToday + 1
    /\ runCompletions' = runCompletions + 1

\* variant: a firing takes two seconds off
DecrementByTwo(seconds) == seconds - 2

\* timeLeft--
Decrement(seconds) == seconds - 1

\* one firing of the interval callback registered under `handle`
Tick(handle) ==
    /\ page = "timer"
    /\ handle \in intervals
    /\ timeLeft' = Num(Decrement(timeLeft[2]))
    /\ IF Decrement(timeLeft[2]) <= 0
       THEN CompleteSession
       ELSE /\ timerDisplay' = DisplayString(Decrement(timeLeft[2]))
            /\ docTitle' = TitleFor(Decrement(timeLeft[2]))
            /\ UNCHANGED <<intervals, isRunning, statusMessage, sessionCountDisplay,
                           sessionStore, doneToday, runCompletions>>
    /\ ticks' = ticks + 1
    /\ alertMsg' = <<>>
    /\ lastOp' = "tick"
    /\ UNCHANGED <<page, today, countdown, minutesInput, startBtnShown, runSeconds>>
    /\ UNCHANGED plannerVars

\* variant: reset leaves the interval running
ResetTimerKeepsInterval ==
    /\ page = "timer"
    /\ isRunning' = FALSE
    /\ minutesInput' = NumToString(DefaultMinutes)
    /\ timerDisplay' = DisplayString(DefaultMinutes * SecondsPerMinute)
    /\ statusMessage' = "Ready to Focus?"
    /\ docTitle' = <<"Daily Focus Timer">>
    /\ startBtnShown' = TRUE
    /\ alertMsg' = <<>>
    /\ lastOp' = "reset"
    /\ UNCHANGED <<page, today, countdown, timeLeft, intervals, sessionCountDisplay,
                   sessionStore, doneToday, runCompletions,
                   runSeconds, ticks>>
    /\ UNCHANGED plannerVars

\* resetTimer
ResetTimer ==
    /\ page = "timer"
    /\ intervals' = ClearInterval(countdown, intervals)
    /\ isRunning' = FALSE
    /\ minutesInput' = NumToString(DefaultMinutes)
    /\ timerDisplay' = DisplayString(DefaultMinutes * SecondsPerMinute)
    /\ statusMessage' = "Ready to Focus?"
    /\ docTitle' = <<"Daily Focus Timer">>
    /\ startBtnShown' = TRUE
    /\ alertMsg' = <<>>
    /\ lastOp' = "reset"
    /\ UNCHANGED <<page, today, countdown, timeLeft, sessionCountDisplay,
                   sessionStore, doneToday, runCompletions,
                   runSeconds, ticks>>
    /\ UNCHANGED plannerVars

\* the tab is reloaded: a fresh page, then loadDailyStats
TimerReload ==
    /\ page = "timer"
    /\ TimerPageLoad(today, sessionStore)
    /\ runCompletions' = 0
    /\ runSeconds' = 0
    /\ ticks' = 0
    /\ lastOp' = "load"
    /\ UNCHANGED <<page, today, doneToday>>
    /\ UNCHANGED plannerVars

\* local midnight passes
TimerMidnight ==
    /\ page = "timer"
    /\ today < MaxDay
    /\ today' = today + 1
    /\ doneToday' = 0
    /\ lastOp' = "midnight"
    /\ UNCHANGED <<page, countdown, timeLeft, isRunning, intervals, timerDisplay,
                   statusMessage, minutesInput, sessionCountDisplay, startBtnShown,
                   docTitle, alertMsg, sessionStore, runCompletions,
                   runSeconds, ticks>>
    /\ UNCHANGED plannerVars

TimerNext ==
    \/ \E text \in MinuteTexts : StartClick(text)
    \/ \E handle \in intervals : Tick(handle)
    \/ ResetTimer
    \/ TimerReload
    \/ TimerMidnight

TimerSpec == TimerInit /\ [][TimerNext]_vars

\* setInterval(callback, 1000): while the interval is registered the host
\* runs the callback once a second, so a firing that stays possible happens
FairTimerSpec ==
    TimerInit /\ [][TimerNext]_vars /\ WF_vars(\E handle \in intervals : Tick(handle))

\* ------------------------------------------- focus timer: every duration
\* Runs of every whole number of minutes the start handler accepts.  The user
\* leaves the page alone while a countdown runs, apart from Reset; runs of up
\* to FullRunMinutes are followed to their end, longer ones for their first
\* MaxTicks seconds.
MaxTicks == 3
FullRunMinutes == 2

AllMinuteTexts == { NumToString(d) : d \in MinMinutes..MaxMinutes }

CountdownStart(text) == ~isRunning /\ StartClick(text)

CountdownTick(handle) ==
    /\ ticks < MaxTicks \/ runSeconds <= FullRunMinutes * SecondsPerMinute
    /\ Tick(handle)

CountdownNext ==
    \/ \E text \in AllMinuteTexts : CountdownStart(text)
    \/ \E handle \in intervals : CountdownTick(handle)
    \/ ResetTimer

CountdownSpec == TimerInit /\ [][CountdownNext]_vars

\* ----------------------------------------------------------- study planner
\* index.html is not part of the sources: what the statistics show before
\* any script has run
HtmlStatsTotal == Num(0)
HtmlStatsCompleted == Num(0)
HtmlPercent == Ratio(0, 1)

\* String.prototype.trim
RECURSIVE DropTrailingSpaces(_)
DropTrailingSpaces(text) ==
    IF text # <<>> /\ IsSpace(text[Len(text)])
    THEN DropTrailingSpaces(SubSeq(text, 1, Len(text) - 1))
    ELSE text
Trim(text) == DropTrailingSpaces(SkipSpaces(text))

\* String(x) as parseInt applies it to its argument
ToText(x) == IF IsNum(x) THEN NumToString(x[2])
             ELSE IF IsStr(x) THEN x[2]
             ELSE <<"N", "a", "N">>

\* sum + t.minutes of the reducers of updateStats: null counts as 0
JsAdd(sum, minutes) ==
    IF ~IsNum(sum) THEN NaN
    ELSE IF IsNum(minutes) THEN Num(sum[2] + minutes[2])
    ELSE IF minutes = JsNull THEN sum
    ELSE NaN

RECURSIVE SumMinutes(_)
SumMinutes(ts) ==
    IF ts = <<>> THEN Num(0)
    ELSE JsAdd(SumMinutes(SubSeq(ts, 1, Len(ts) - 1)), ts[Len(ts)].minutes)

\* variant: every task counts as completed
IsCompletedAlways(t) == TRUE

IsCompleted(t) == t.completed

\* total === 0 ? 0 : (completed / total) * 100
PercentOf(completed, total) ==
    IF total = Num(0) THEN Ratio(0, 1)
    ELSE IF ~IsNum(total) \/ ~IsNum(completed) THEN NaN
    ELSE IF total[2] > 0 THEN Ratio(100 * completed[2], total[2])
    ELSE Ratio(-100 * completed[2], -total[2])

\* updateStats: what the three statistics elements are given
UpdateStats(ts) ==
    [total |-> SumMinutes(ts),
     completed |-> SumMinutes(SelectSeq(ts, IsCompleted)),
     percent |-> PercentOf(SumMinutes(SelectSeq(ts, IsCompleted)), SumMinutes(ts))]

\* JSON.parse(JSON.stringify(ts)): NaN is written as null
JsonMinutes(minutes) == IF minutes = NaN THEN JsNull ELSE minutes
JsonTasks(ts) == [i \in 1..Len(ts) |-> [ts[i] EXCEPT !.minutes = JsonMinutes(@)]]

\* escapeHtml(text) throws a TypeError: text is truthy and has no replace
EscapeThrows(text) == Truthy(text) /\ ~IsStr(text)

\* renderTasks: the position of the first task whose markup cannot be
\* built, 0 when all of them render
FirstUnrendered(ts) ==
    IF \E i \in 1..Len(ts) : EscapeThrows(ts[i].subject) \/ EscapeThrows(ts[i].topic)
    THEN CHOOSE i \in 1..Len(ts) :
            /\ EscapeThrows(ts[i].subject) \/ EscapeThrows(ts[i].topic)
            /\ \A j \in 1..(i - 1) :
                  ~EscapeThrows(ts[j].subject) /\ ~EscapeThrows(ts[j].topic)
    ELSE 0

\* renderTasks: the checkboxes in #task-list afterwards, and whether the call
\* returned (and so attached the change listeners) or threw
RenderTasks(ts) ==
    LET stop == FirstUnrendered(ts)
        shown == IF stop = 0 THEN Len(ts) ELSE stop - 1
    IN [boxes |-> [i \in 1..shown |-> [id |-> ts[i].id, checked |-> ts[i].completed]],
        returned |-> stop = 0]

\* variant: a new day stores the date and keeps the stored tasks
CheckDayResetKeepsTasks(day, stored, lastDate) ==
    IF lastDate # <<day>>
    THEN <<<<>>, IF stored = <<>> THEN << <<>> >> ELSE stored, <<day>>>>
    ELSE <<<<>>, stored, lastDate>>

\* checkDayReset: <<tasks, stored array, stored date>> afterwards
CheckDayReset(day, stored, lastDate) ==
    IF lastDate # <<day>>
    THEN <<<<>>, << <<>> >>, <<day>>>>
    ELSE <<<<>>, stored, lastDate>>

\* loadTasks
LoadTasks(current, stored) == IF stored # <<>> THEN stored[1] ELSE current

\* a fresh page, then the DOMContentLoaded handler: checkDayReset, loadTasks,
\* renderTasks and, when that returned, updateStats
PlannerPageLoad(day, stored, lastDate) ==
    LET reset == CheckDayReset(day, stored, lastDate)
        loaded == LoadTasks(reset[1], reset[2])
        drawn == RenderTasks(loaded)
    IN /\ tasks' = loaded
       /\ taskStore' = reset[2]
       /\ dateStore' = reset[3]
       /\ rendered' = drawn.boxes
       /\ listenersOn' = drawn.returned
       /\ importError' = <<>>
       /\ alertMsg' = <<>>
       /\ IF drawn.returned
          THEN /\ statsTotal' = UpdateStats(loaded).total
               /\ statsCompleted' = UpdateStats(loaded).completed
               /\ percent' = UpdateStats(loaded).percent
          ELSE /\ statsTotal' = HtmlStatsTotal
               /\ statsCompleted' = HtmlStatsCompleted
               /\ percent' = HtmlPercent

\* the timer's variables in a tab that shows the planner
TimerNotOpened ==
    /\ countdown = 0
    /\ timeLeft = JsUndefined
    /\ isRunning = FALSE
    /\ intervals = {}
    /\ timerDisplay = HtmlTimerDisplay
    /\ statusMessage = HtmlStatusMessage
    /\ minutesInput = HtmlMinutesInput
    /\ startBtnShown = TRUE
    /\ docTitle = HtmlTitle
    /\ sessionStore = <<>>
    /\ sessionCountDisplay = HtmlSessionCount
    /\ doneToday = 0
    /\ runCompletions = 0
    /\ runSeconds = 0
    /\ ticks = 0

timerOnly == <<countdown, timeLeft, isRunning, intervals, timerDisplay,
               statusMessage, minutesInput, sessionCountDisplay, startBtnShown,
               docTitle, sessionStore, doneToday, runCompletions, runSeconds,
               ticks, lastOp>>

\* first visit, nothing stored: the state the DOMContentLoaded handler leaves
PlannerInit ==
    LET reset == CheckDayReset(0, <<>>, <<>>)
        loaded == LoadTasks(reset[1], reset[2])
    IN /\ page = "planner"
       /\ today = 0
       /\ now = 0
       /\ tasks = loaded
       /\ taskStore = reset[2]
       /\ dateStore = reset[3]
       /\ rendered = RenderTasks(loaded).boxes
       /\ listenersOn = RenderTasks(loaded).returned
       /\ statsTotal = UpdateStats(loaded).total
       /\ statsCompleted = UpdateStats(loaded).completed
       /\ percent = UpdateStats(loaded).percent
       /\ importError = <<>>
       /\ alertMsg = <<>>
       /\ lastOp = "load"
       /\ savedOn = <<>>
       /\ TimerNotOpened

\* saveTasks, then renderTasks, as addManualTask, importJsonTasks and
\* clearAllTasks call them on the new array `ts`
SaveAndRender(ts) ==
    /\ tasks' = ts
    /\ taskStore' = <<JsonTasks(ts)>>
    /\ statsTotal' = UpdateStats(ts).total
    /\ statsCompleted' = UpdateStats(ts).completed
    /\ percent' = UpdateStats(ts).percent
    /\ rendered' = RenderTasks(ts).boxes
    /\ listenersOn' = RenderTasks(ts).returned
    /\ savedOn' = <<today>>

\* the texts the user can have put in the three fields before clicking Add
AddInputs == { <<<<" ", "A", " ">>, <<"B">>, <<"1", "5">>>>,
               <<<<"A">>, <<"B">>, <<"1", "5", ".", "5">>>>,
               <<<<" ">>, <<"B">>, <<"1", "5">>>>,
               <<<<"A">>, <<>>, <<"1", "5">>>>,
               <<<<"A">>, <<"B">>, <<"0">>>>,
               <<<<"A">>, <<"B">>, <<"x">>>> }

\* addManualTask's validation: TRUE when the fields are refused
RejectsTask(subject, topic, minutes) ==
    \/ subject = <<>>
    \/ topic = <<>>
    \/ ~IsNum(minutes)
    \/ minutes[2] <= 0

\* addManualTask, with the three field texts
AddManualTask(fields) ==
    LET subject == Trim(fields[1])
        topic == Trim(fields[2])
        minutes == ParseInt(fields[3])
        newTask == [id |-> now, subject |-> Str(subject),
                    topic |-> Str(topic), minutes |-> minutes, completed |-> FALSE]
    IN /\ page = "planner"
       /\ Len(tasks) < MaxTasks
       /\ IF RejectsTask(subject, topic, minutes)
          THEN /\ alertMsg' = <<"Please fill in all fields correctly.">>
               /\ UNCHANGED <<tasks, taskStore, statsTotal, statsCompleted, percent,
                              rendered, listenersOn, savedOn>>
          ELSE /\ alertMsg' = <<>>
               /\ SaveAndRender(Append(tasks, newTask))
       /\ UNCHANGED <<page, today, now, importError, dateStore>>
       /\ UNCHANGED timerOnly

\* what JSON.parse makes of the text in #json-input.  A text is blank,
\* malformed (JSON.parse throws), or holds a value; an element of an array
\* value is null or an object whose missing members read as undefined.
Item(subject, topic, minutes) ==
    [isNull |-> FALSE, subject |-> subject, topic |-> topic, minutes |-> minutes]
ValidItem == Item(Str(<<"A">>), Str(<<"B">>), Str(<<"1", "5">>))
SubjectOnlyItem == Item(Str(<<"C">>), JsUndefined, JsUndefined)
WordMinutesItem == Item(Str(<<"A">>), Str(<<"B">>), Str(<<"a", "b", "c">>))
NumberSubjectItem == Item(Num(5), Str(<<"B">>), Str(<<"1", "5">>))
OtherItem == Item(Str(<<"C">>), Str(<<"D">>), Str(<<"1", "5">>))
NullItem == [isNull |-> TRUE, subject |-> JsUndefined, topic |-> JsUndefined,
             minutes |-> JsUndefined]

JsonArray(items) == [kind |-> "json", isArray |-> TRUE, items |-> items]
ImportTexts ==
    { [kind |-> "blank", isArray |-> FALSE, items |-> <<>>],
      [kind |-> "malformed", isArray |-> FALSE, items |-> <<>>],
      [kind |-> "json", isArray |-> FALSE, items |-> <<>>],
      JsonArray(<<>>),
      JsonArray(<<ValidItem>>),
      JsonArray(<<ValidItem, OtherItem>>),
      JsonArray(<<ValidItem, SubjectOnlyItem>>),
      JsonArray(<<WordMinutesItem>>),
      JsonArray(<<NumberSubjectItem>>),
      JsonArray(<<NullItem>>) }

\* the forEach callback throws on this element
ItemThrows(item) ==
    \/ item.isNull
    \/ ~Truthy(item.subject) \/ ~Truthy(item.topic) \/ ~Truthy(item.minutes)

\* position of the first element the callback throws on, 0 when there is none
FirstRefused(items) ==
    IF \E i \in 1..Len(items) : ItemThrows(items[i])
    THEN CHOOSE i \in 1..Len(items) :
            ItemThrows(items[i]) /\ \A j \in 1..(i - 1) : ~ItemThrows(items[j])
    ELSE 0

\* the Date.now() readings of one forEach: one per element, never decreasing
ClockReads(n) ==
    { reads \in [1..n -> now..MaxNow] : \A i \in 1..(n - 1) : reads[i] <= reads[i + 1] }

\* the id importJsonTasks gives the element at `index`, read at `ms`
ImportId(ms, index) == ms + index

\* the tasks the forEach builds from the elements
NewTasks(items, reads) ==
    [i \in 1..Len(items) |->
        [id |-> ImportId(reads[i], i - 1),
         subject |-> items[i].subject,
         topic |-> items[i].topic,
         minutes |-> ParseInt(ToText(items[i].minutes)),
         completed |-> FALSE]]

\* variant: the imported tasks are put in front
MergeNewFirst(old, new) == new \o old

\* [...tasks, ...newTasks]
Merge(old, new) == old \o new

\* importJsonTasks, with the text in #json-input
ImportJsonTasks(text, reads) ==
    LET refused == FirstRefused(text.items)
        pushed == IF refused = 0 THEN Len(text.items) ELSE refused - 1
        merged == Merge(tasks, NewTasks(text.items, reads))
    IN /\ page = "planner"
       /\ Len(tasks) + Len(text.items) <= MaxTasks
       /\ now' = IF pushed = 0 THEN now ELSE reads[pushed]
       /\ IF text.kind = "blank"
          THEN /\ importError' = <<"Please paste some JSON first.">>
               /\ alertMsg' = <<>>
               /\ UNCHANGED <<tasks, taskStore, statsTotal, statsCompleted, percent,
                              rendered, listenersOn, savedOn>>
          ELSE IF text.kind = "malformed"
          THEN /\ importError' = <<"Invalid JSON: ", "(SyntaxError of JSON.parse)">>
               /\ alertMsg' = <<>>
               /\ UNCHANGED <<tasks, taskStore, statsTotal, statsCompleted, percent,
                              rendered, listenersOn, savedOn>>
          ELSE IF ~text.isArray
          THEN /\ importError' = <<"Invalid JSON: ", "JSON must be an array of objects.">>
               /\ alertMsg' = <<>>
               /\ UNCHANGED <<tasks, taskStore, statsTotal, statsCompleted, percent,
                              rendered, listenersOn, savedOn>>
          ELSE IF refused # 0
          THEN /\ importError' =
                    IF text.items[refused].isNull
                    THEN <<"Invalid JSON: ", "(TypeError: property of null)">>
                    ELSE <<"Invalid JSON: ", "Item at index ", refused - 1,
                           " is missing fields.">>
               /\ alertMsg' = <<>>
               /\ UNCHANGED <<tasks, taskStore, statsTotal, statsCompleted, percent,
                              rendered, listenersOn, savedOn>>
          ELSE /\ SaveAndRender(merged)
               /\ IF RenderTasks(merged).returned
                  THEN /\ importError' = <<>>
                       /\ alertMsg' = <<"Successfully imported ", Len(text.items),
                                        " tasks.">>
                  ELSE /\ importError' =
                            <<"Invalid JSON: ", "(TypeError: text.replace is not a function)">>
                       /\ alertMsg' = <<>>
       /\ UNCHANGED <<page, today, dateStore>>
       /\ UNCHANGED timerOnly

\* tasks.find(t => t.id === id): the position of the first match, 0 if none
FindTask(ts, id) ==
    IF \E i \in 1..Len(ts) : ts[i].id = id
    THEN CHOOSE i \in 1..Len(ts) : ts[i].id = id /\ \A j \in 1..(i - 1) : ts[j].id # id
    ELSE 0

\* toggleTask: the user flips the checkbox at position `box` of #task-list
ToggleTask(box) ==
    LET checked == ~rendered[box].checked
        id == ParseInt(NumToString(rendered[box].id))[2]
        found == FindTask(tasks, id)
        changed == [tasks EXCEPT ![found].completed = checked]
    IN /\ page = "planner"
       /\ listenersOn
       /\ box \in 1..Len(rendered)
       /\ alertMsg' = <<>>
       /\ rendered' = [rendered EXCEPT ![box].checked = checked]
       /\ IF found # 0
          THEN /\ tasks' = changed
               /\ taskStore' = <<JsonTasks(changed)>>
               /\ statsTotal' = UpdateStats(changed).total
               /\ statsCompleted' = UpdateStats(changed).completed
               /\ percent' = UpdateStats(changed).percent
               /\ savedOn' = <<today>>
          ELSE UNCHANGED <<tasks, taskStore, statsTotal, statsCompleted, percent,
                           savedOn>>
       /\ UNCHANGED <<page, today, now, listenersOn, importError, dateStore>>
       /\ UNCHANGED timerOnly

\* clearAllTasks, with the user's answer to confirm()
ClearAllTasks(confirmed) ==
    /\ page = "planner"
    /\ alertMsg' = <<>>
    /\ IF confirmed
       THEN SaveAndRender(<<>>)
       ELSE UNCHANGED <<tasks, taskStore, statsTotal, statsCompleted, percent,
                        rendered, listenersOn, savedOn>>
    /\ UNCHANGED <<page, today, now, importError, dateStore>>
    /\ UNCHANGED timerOnly

\* the tab is reloaded
PlannerReload ==
    /\ page = "planner"
    /\ PlannerPageLoad(today, taskStore, dateStore)
    /\ UNCHANGED <<page, today, now, savedOn>>
    /\ UNCHANGED timerOnly

\* a millisecond passes
PlannerClock ==
    /\ page = "planner"
    /\ now < MaxNow
    /\ now' = now + 1
    /\ UNCHANGED <<page, today, alertMsg, tasks, rendered, listenersOn, statsTotal,
                   statsCompleted, percent, importError, taskStore, dateStore, savedOn>>
    /\ UNCHANGED timerOnly

\* the millisecond that passes is the last one of the local day
PlannerMidnight ==
    /\ page = "planner"
    /\ today < MaxDay
    /\ now < MaxNow
    /\ today' = today + 1
    /\ now' = now + 1
    /\ UNCHANGED <<page, alertMsg, tasks, rendered, listenersOn, statsTotal,
                   statsCompleted, percent, importError, taskStore, dateStore, savedOn>>
    /\ UNCHANGED timerOnly

PlannerNext ==
    \/ \E fields \in AddInputs : AddManualTask(fields)
    \/ \E text \in ImportTexts : \E reads \in ClockReads(Len(text.items)) :
          ImportJsonTasks(text, reads)
    \/ \E box \in 1..Len(rendered) : ToggleTask(box)
    \/ \E confirmed \in BOOLEAN : ClearAllTasks(confirmed)
    \/ PlannerReload
    \/ PlannerClock
    \/ PlannerMidnight

PlannerSpec == PlannerInit /\ [][PlannerNext]_vars

\* ------------------------------------- study planner: the statistics alone
\* updateStats over collections of up to MaxStatsTasks tasks of 10, 20 or 30
\* minutes: the page after one import at millisecond 0 (ids 0, 1, ...), then
\* any ticking of checkboxes, clearing and reloading.
MaxStatsTasks == 3

StatsMinutes == {10, 20, 30}

StatsCollections ==
    UNION { { [i \in 1..n |->
                 [id |-> ImportId(0, i - 1), subject |-> Str(<<"A">>),
                  topic |-> Str(<<"B">>), minutes |-> Num(pick[i]),
                  completed |-> FALSE]] :
              pick \in [1..n -> StatsMinutes] } :
            n \in 0..MaxStatsTasks }

StatsInit ==
    \E ts \in StatsCollections :
        /\ page = "planner"
        /\ today = 0
        /\ now = 0
        /\ tasks = ts
        /\ taskStore = <<JsonTasks(ts)>>
        /\ dateStore = <<0>>
        /\ rendered = RenderTasks(ts).boxes
        /\ listenersOn = RenderTasks(ts).returned
        /\ statsTotal = UpdateStats(ts).total
        /\ statsCompleted = UpdateStats(ts).completed
        /\ percent = UpdateStats(ts).percent
        /\ importError = <<>>
        /\ alertMsg = <<>>
        /\ lastOp = "load"
        /\ savedOn = <<0>>
        /\ TimerNotOpened

StatsNext ==
    \/ \E box \in 1..Len(rendered) : ToggleTask(box)
    \/ \E confirmed \in BOOLEAN : ClearAllTasks(confirmed)
    \/ PlannerReload

StatsSpec == StatsInit /\ [][StatsNext]_vars

\* ------------------------------------------------- one tab, either page
Init == TimerInit \/ PlannerInit
Next == TimerNext \/ PlannerNext
Spec == Init /\ [][Next]_vars

\* ------------------------------------------------- focus timer: properties
\* the phase of the specification's TimerState, read off the script state
Phase == IF isRunning THEN "Running"
         ELSE IF statusMessage = "Session Complete!" THEN "Complete"
         ELSE "Idle"

StoredCount == sessionStore[1].count

\* the seconds the MM:SS text of #timer-display stands for
ColonAt(text) == CHOOSE i \in 1..Len(text) : text[i] = ":"
ShownSeconds ==
    ParseInt(SubSeq(timerDisplay, 1, ColonAt(timerDisplay) - 1))[2] * 60
        + ParseInt(SubSeq(timerDisplay, ColonAt(timerDisplay) + 1, Len(timerDisplay)))[2]

\* C1: the tick that brings the remaining seconds to 0 sets the phase to
\* Complete, adds exactly 1 to the shown and to the stored session count and
\* leaves no interval active; it is the only completion of its run, and a
\* tick that does not reach 0 changes neither count.
C1_CompletesExactlyOnce ==
    [][/\ (lastOp' = "tick" /\ timeLeft'[2] <= 0) =>
             /\ Phase = "Running"
             /\ Phase' = "Complete"
             /\ SessionCount' = SessionCount + 1
             /\ StoredCount' = StoredCount + 1
             /\ StoredCount' = SessionCount'
             /\ intervals' = {}
             /\ runCompletions' = 1
       /\ (lastOp' = "tick" /\ timeLeft'[2] > 0) =>
             /\ Phase' = "Running"
             /\ sessionCountDisplay' = sessionCountDisplay
             /\ sessionStore' = sessionStore
       /\ (Phase' = "Complete" => intervals' = {} /\ runCompletions' = 1)
      ]_vars

C1_Witness ==
    /\ lastOp = "tick"
    /\ Phase = "Complete"
    /\ timeLeft = Num(0)
    /\ SessionCount = 2
    /\ StoredCount = 2

\* C2: a session record dated today holds the number of sessions completed
\* on this calendar day.
C2_StoredCountIsTodaysSessions ==
    (sessionStore # <<>> /\ sessionStore[1].date = today) => StoredCount = doneToday

\* C7: reset leaves the timer Idle, showing 25:00 with 25 in the minutes
\* field and no interval active, and changes neither the shown nor the stored
\* session count.
C7_ResetToIdle ==
    [][lastOp' = "reset" =>
          /\ Phase' = "Idle"
          /\ ShownSeconds' = 1500
          /\ ParseInt(minutesInput') = Num(25)
          /\ intervals' = {}
          /\ sessionCountDisplay' = sessionCountDisplay
          /\ sessionStore' = sessionStore
      ]_vars

\* reset has aborted a run (timeLeft keeps the aborted run's value) after a
\* session was completed
C7_Witness ==
    /\ lastOp = "reset"
    /\ Phase = "Idle"
    /\ IsNum(timeLeft) /\ timeLeft[2] = 30
    /\ SessionCount = 1

\* C8: never more than one interval is active, and the start handler run
\* while the timer is Running changes neither the intervals nor the
\* remaining seconds.
C8_SingleTickSource ==
    [][/\ Cardinality(intervals') <= 1
       /\ (lastOp' = "start" /\ isRunning) =>
             /\ intervals' = intervals
             /\ countdown' = countdown
             /\ timeLeft' = timeLeft
             /\ timerDisplay' = timerDisplay
             /\ isRunning'
      ]_vars

C8_Witness ==
    /\ lastOp = "start"
    /\ isRunning
    /\ timeLeft = Num(59)
    /\ Cardinality(intervals) = 1

C10_DayRolloverOnLoad ==
    /\ page = "timer" => sessionStore = SaveStats(today, 0) /\ SessionCount = 0
    /\ page = "planner" =>
          dateStore = <<today>> /\ taskStore = << <<>> >> /\ tasks = <<>>
    /\ [][/\ TimerReload =>
                IF sessionStore[1].date # today
                THEN sessionStore' = SaveStats(today, 0) /\ SessionCount' = 0
                ELSE sessionStore' = sessionStore /\ SessionCount' = sessionStore[1].count
          /\ PlannerReload =>
                IF dateStore # <<today>>
                THEN /\ dateStore' = <<today>>
                     /\ taskStore' = << <<>> >>
                     /\ tasks' = <<>>
                ELSE /\ dateStore' = dateStore
                     /\ taskStore' = taskStore
                     /\ tasks' = taskStore[1]
         ]_vars

\* the timer page has been reloaded on a later day than the one stored
C10_Witness ==
    /\ page = "timer"
    /\ lastOp = "load"
    /\ today = 1
    /\ sessionStore = SaveStats(1, 0)
    /\ SessionCount = 0

\* ----------------------------------------------- study planner: properties
\* a step of the import handler
ImportStep ==
    \E text \in ImportTexts : \E reads \in ClockReads(Len(text.items)) :
        ImportJsonTasks(text, reads)

\* C3: no two tasks of the collection have the same id.
C3_UniqueIds ==
    \A i, j \in 1..Len(tasks) : i # j => tasks[i].id # tasks[j].id

\* C4: an import that reports an error leaves the task collection, in memory
\* and in storage, as it was.
C4_ImportAllOrNothing ==
    [][(ImportStep /\ importError' # <<>>) =>
          (tasks' = tasks /\ taskStore' = taskStore)]_vars

\* C5: the completed minutes are at most the total minutes and the
\* percentage lies between 0 and 100.
C5_StatsInRange ==
    LET stats == UpdateStats(tasks)
    IN /\ IsNum(stats.total)
       /\ IsNum(stats.completed)
       /\ stats.completed[2] <= stats.total[2]
       /\ stats.percent[1] = "ratio"
       /\ 0 <= stats.percent[2]
       /\ stats.percent[2] <= 100 * stats.percent[3]

\* a collection of the specification's data model: text for subject and
\* topic, a whole number of minutes above 0
WellFormed(ts) ==
    \A i \in 1..Len(ts) :
        /\ IsStr(ts[i].subject) /\ ts[i].subject[2] # <<>>
        /\ IsStr(ts[i].topic) /\ ts[i].topic[2] # <<>>
        /\ IsNum(ts[i].minutes) /\ ts[i].minutes[2] > 0

\* C6: a reload on the calendar day of the last save yields the collection
\* that was saved: same tasks, same order, same fields.
C6_SameDayRoundTrip ==
    [][(PlannerReload /\ savedOn = <<today>> /\ WellFormed(tasks)) =>
          tasks' = tasks]_vars

\* C11: ticking or unticking the checkbox of a shown task flips the completed
\* flag of that task and of no other, leaves the total minutes as they were
\* and moves the completed minutes by that task's minutes, up when it becomes
\* completed and down when it becomes incomplete.
C11_ToggleChangesOneTask ==
    [][\A box \in 1..Len(rendered) :
          (ToggleTask(box) /\ WellFormed(tasks)) =>
              /\ tasks' = [tasks EXCEPT ![box].completed = ~tasks[box].completed]
              /\ UpdateStats(tasks').total = UpdateStats(tasks).total
              /\ UpdateStats(tasks').completed =
                    Num(UpdateStats(tasks).completed[2]
                        + (IF tasks[box].completed THEN -1 ELSE 1) * tasks[box].minutes[2])
      ]_vars

\* C12: every task of the collection has a non-empty text as subject and as
\* topic and a whole number of minutes above 0.
C12_TaskFieldsValid == WellFormed(tasks)

\* ------------------------------------------- focus timer: more properties
\* C13: while the calendar day stays the same and the record is of today,
\* no step lowers the stored session count; a tick that completes a session
\* raises it by exactly 1, start, reset and a tick that does not complete
\* leave the record alone, and a reload on the record's day leaves the record
\* as it is and shows its count.
C13_CountMonotoneWithinDay ==
    [][/\ (today' = today /\ sessionStore[1].date = today) =>
             /\ sessionStore'[1].date = today
             /\ StoredCount' >= StoredCount
       /\ (lastOp' = "tick" /\ timeLeft'[2] <= 0) => StoredCount' = StoredCount + 1
       /\ (lastOp' = "tick" /\ timeLeft'[2] > 0) => sessionStore' = sessionStore
       /\ lastOp' \in {"start", "reset"} => sessionStore' = sessionStore
       /\ (TimerReload /\ sessionStore[1].date = today) =>
             /\ sessionStore' = sessionStore
             /\ SessionCount' = StoredCount
      ]_vars

\* the page has been reloaded on the day two sessions were completed
C13_Witness ==
    /\ lastOp = "load"
    /\ sessionStore = SaveStats(today, 2)
    /\ doneToday = 2
    /\ SessionCount = 2

\* ----------------------------------------- study planner: more properties
\* the definitions of the statistics, over whole minutes
RECURSIVE TotalMinutes(_)
TotalMinutes(ts) ==
    IF ts = <<>> THEN 0 ELSE Head(ts).minutes[2] + TotalMinutes(Tail(ts))

RECURSIVE CompletedMinutes(_)
CompletedMinutes(ts) ==
    IF ts = <<>> THEN 0
    ELSE (IF Head(ts).completed THEN Head(ts).minutes[2] ELSE 0)
            + CompletedMinutes(Tail(ts))

\* C14: the statistics shown are those of the definition: the total is the
\* sum of the minutes of all tasks, the completed minutes are the sum over
\* the completed tasks, the percentage is 0 when the total is 0 and 100 times
\* completed over total otherwise; after a confirmed clearAll all three are 0.
C14_StatsMatchDefinition ==
    /\ [](/\ statsTotal = Num(TotalMinutes(tasks))
          /\ statsCompleted = Num(CompletedMinutes(tasks))
          /\ percent[1] = "ratio"
          /\ percent[3] > 0
          /\ IF TotalMinutes(tasks) = 0
             THEN percent[2] = 0
             ELSE percent[2] * TotalMinutes(tasks)
                     = 100 * CompletedMinutes(tasks) * percent[3])
    /\ [][ClearAllTasks(TRUE) =>
             /\ tasks' = <<>>
             /\ statsTotal' = Num(0)
             /\ statsCompleted' = Num(0)
             /\ percent'[2] = 0
         ]_vars

\* three tasks of 10, 20 and 30 minutes, the last one completed: 30 of 60
C14_Witness ==
    /\ Len(tasks) = 3
    /\ statsTotal = Num(60)
    /\ statsCompleted = Num(30)
    /\ tasks[3].completed /\ tasks[3].minutes = Num(30)
    /\ percent[2] * 2 = 100 * percent[3]

\* ------------------------------------------- focus timer: more properties
\* C15: a start with d minutes, d from 1 to 180, sets the remaining seconds
\* to 60 * d; each tick takes exactly one second off, so after k ticks of the
\* run the remaining seconds are 60 * d - k; no tick fires once they are 0,
\* and they are never negative.
C15_RemainingSeconds ==
    /\ [](IsNum(timeLeft) =>
             /\ timeLeft[2] >= 0
             /\ timeLeft[2] = runSeconds - ticks)
    /\ [][(lastOp' = "start" /\ ~isRunning /\ alertMsg' = <<>>) =>
             /\ ParseInt(minutesInput')[2] \in 1..180
             /\ runSeconds' = 60 * ParseInt(minutesInput')[2]
             /\ ticks' = 0
             /\ timeLeft' = Num(runSeconds')
         ]_vars
    /\ [][lastOp' = "tick" =>
             /\ ticks' = ticks + 1
             /\ runSeconds' = runSeconds
             /\ timeLeft' = Num(runSeconds - ticks')
             /\ timeLeft[2] >= 1
         ]_vars

\* three ticks into a run of 180 minutes
C15_Witness ==
    /\ lastOp = "tick"
    /\ isRunning
    /\ minutesInput = <<"1", "8", "0">>
    /\ ticks = 3
    /\ timeLeft = Num(10797)

\* ----------------------------------------- study planner: more properties
\* the text of the minutes field is a whole number above 0
IsPositiveIntegerText(text) ==
    /\ Trim(text) # <<>>
    /\ \A i \in 1..Len(Trim(text)) : IsDigit(Trim(text)[i])
    /\ ParseInt(Trim(text))[2] > 0

\* C16: Add with a subject or topic that is empty after trimming, or with
\* minutes that are not a whole number above 0, raises the alert and leaves
\* the collection, in memory and in storage, as it was; any other Add appends
\* exactly one task, not completed, with the trimmed subject and topic and
\* those minutes.
C16_AddValidation ==
    [][\A fields \in AddInputs :
          AddManualTask(fields) =>
              IF \/ Trim(fields[1]) = <<>>
                 \/ Trim(fields[2]) = <<>>
                 \/ ~IsPositiveIntegerText(fields[3])
              THEN /\ alertMsg' # <<>>
                   /\ tasks' = tasks
                   /\ taskStore' = taskStore
              ELSE /\ alertMsg' = <<>>
                   /\ Len(tasks') = Len(tasks) + 1
                   /\ SubSeq(tasks', 1, Len(tasks)) = tasks
                   /\ tasks'[Len(tasks')].subject = Str(Trim(fields[1]))
                   /\ tasks'[Len(tasks')].topic = Str(Trim(fields[2]))
                   /\ tasks'[Len(tasks')].minutes = ParseInt(Trim(fields[3]))
                   /\ tasks'[Len(tasks')].completed = FALSE
      ]_vars

\* the same task but for its completed flag
SameButCompleted(before, after) == after = [before EXCEPT !.completed = after.completed]

\* the tasks that were there are kept, unchanged and in place, and `count`
\* tasks stand behind them
AppendsTasks(count) ==
    /\ Len(tasks') = Len(tasks) + count
    /\ SubSeq(tasks', 1, Len(tasks)) = tasks

\* the new tasks are those of the elements, in the order of the input
AppendsItems(items) ==
    /\ AppendsTasks(Len(items))
    /\ \A i \in 1..Len(items) :
          /\ tasks'[Len(tasks) + i].subject = items[i].subject
          /\ tasks'[Len(tasks) + i].topic = items[i].topic
          /\ ~tasks'[Len(tasks) + i].completed

\* as many tasks as before, each the same but for its completed flag
ChangesFlagsOnly ==
    /\ Len(tasks') = Len(tasks)
    /\ \A i \in 1..Len(tasks) : SameButCompleted(tasks[i], tasks'[i])

\* C17: Add and an import that reports no error keep every task that was
\* there, unchanged and in place, and put the new tasks behind them in the
\* order of the input; ticking a checkbox changes completed flags only,
\* neither the number nor the order of the tasks; the collection gets shorter
\* only by a confirmed Clear All or by a load that finds another day's date.
\* (Each line reads "the step has the effect, or it is not the operation".)
C17_AppendOnly ==
    [][/\ \/ tasks' = tasks
          \/ AppendsTasks(1)
          \/ ~\E fields \in AddInputs : AddManualTask(fields)
       /\ \A text \in ImportTexts :
             \/ importError' # <<>>
             \/ AppendsItems(text.items)
             \/ ~\E reads \in ClockReads(Len(text.items)) : ImportJsonTasks(text, reads)
       /\ \/ ChangesFlagsOnly
          \/ ~\E box \in 1..Len(rendered) : ToggleTask(box)
       /\ \/ Len(tasks') >= Len(tasks)
          \/ ClearAllTasks(TRUE)
          \/ PlannerReload /\ dateStore # <<today>>
      ]_vars

\* a completed task, and behind it the task of an import made a millisecond
\* later
C17_Witness ==
    /\ Len(tasks) = 2
    /\ tasks[1].completed /\ tasks[1].id = 0
    /\ ~tasks[2].completed /\ tasks[2].id = 1
    /\ alertMsg = <<"Successfully imported ", 1, " tasks.">>

\* ------------------------------------------- focus timer: phases and progress
\* C18: within one page the phase changes only from Idle to Running by a
\* start, from Running to Complete by the tick that reaches 0, and from
\* Running or Complete to Idle by a reset, which leaves the session count as
\* it was; a freshly loaded page is Idle.
C18_PhaseTransitions ==
    [][Phase' # Phase =>
          \/ Phase = "Idle" /\ Phase' = "Running" /\ lastOp' = "start"
          \/ /\ Phase = "Running" /\ Phase' = "Complete"
             /\ lastOp' = "tick" /\ timeLeft' = Num(0)
          \/ /\ Phase \in {"Running", "Complete"} /\ Phase' = "Idle"
             /\ lastOp' = "reset"
             /\ sessionCountDisplay' = sessionCountDisplay
             /\ sessionStore' = sessionStore
          \/ Phase' = "Idle" /\ lastOp' = "load"
      ]_vars

\* C19: while the interval keeps firing, a countdown that was started ends in
\* "Session Complete!" with the session counted once, unless the page is
\* reset or reloaded first.
C19_EventuallyComplete ==
    isRunning ~> \/ Phase = "Complete" /\ runCompletions = 1
                 \/ lastOp \in {"reset", "load"}

C19_Witness ==
    /\ Phase = "Complete"
    /\ lastOp = "tick"
    /\ runSeconds = 2 * SecondsPerMinute
    /\ ticks = runSeconds
    /\ runCompletions = 1
    /\ SessionCount = 1

\* ------------------------------------------- study planner: storage
\* C20: on the planner page, after the load and after every operation, the
\* collection stored under the tasks key is the collection in memory.
C20_StoreEqualsMemory == page = "planner" => taskStore = <<tasks>>

====
